---- MODULE Spec2Model ----
(***************************************************************************)
(* bakutils-catcher: the error-interception wrapper (createCatchLogic and  *)
(* its entry points catcher, defaultCatcher, Catcher, DefaultCatcher,      *)
(* AnyErrorCatcher), run over a model of the host's promises, microtask    *)
(* queue and timers; and the Option / Result sum types with their          *)
(* combinators, applied to inputs drawn from bounded sets.                 *)
(***************************************************************************)
EXTENDS Integers, Sequences, FiniteSets, TLC

VARIABLES
    pc,        \* "idle" before the wrapper is invoked, "called" after its synchronous part returned
    cfg,       \* the invocation: [layers, name, ctx, args, fn]
    ret,       \* what the outermost wrapper did synchronously: [k: "return" | "throw", v]
    promises,  \* native promises, by id: [state, value, used, fate]
    reacts,    \* per promise id: the reactions registered on it while pending
    jobs,      \* the microtask queue
    timers,    \* the pending setTimeout(..., 0) callbacks of a user thenable, FIFO
    calls,     \* every handler invocation, in order: [layer, argv]
    fnCalls,   \* how many times the wrapped function ran
    inp,       \* the inputs of an Option / Result expression, e.g. [x, d, f, g]
    op,        \* the Option / Result expression that was evaluated ("" when none)
    alt,       \* the outcome of the second expression, when two are compared
    steps      \* how many Option / Result calls were evaluated one after the other

vars == <<pc, cfg, ret, promises, reacts, jobs, timers, calls, fnCalls, inp, op, alt,
          steps>>
dataVars == <<inp, op, alt, steps>>

(***************************** bounds **************************************)
\* longest argument list the wrapper is called with
MaxArgs == 2
\* the numbers an Option / Result is built from are 1..MaxNum
MaxNum == 2
\* longest sequence of constructor and combinator calls
MaxSteps == 3

(***************************** values **************************************)
\* A JavaScript value, as far as the wrapper can tell values apart:
\*   kind  typeof / shape, tag  class name or string content,
\*   code / msg  typeof .errorCode / .message, n  identity.
Val(kind, tag, code, msg, n) ==
    [kind |-> kind, tag |-> tag, code |-> code, msg |-> msg, n |-> n]

Undefined == Val("undefined", "", "absent", "absent", 0)
Null == Val("null", "", "absent", "absent", 0)
Num(n) == Val("number", "", "absent", "absent", n)
Str(s) == Val("string", s, "absent", "absent", 0)
Obj(n) == Val("object", "", "absent", "absent", n)
ErrorOf(cls) == Val("error", cls, "absent", "string", 0)
\* a plain object with errorCode / message members of the given typeof
CodeObj(code, msg) == Val("object", "", code, msg, 0)
PromiseRef(p) == Val("promise", "", "absent", "absent", p)
\* a user object exposing then only / then and catch
ThenableRef == Val("thenable", "", "absent", "absent", 0)
XrmRef == Val("xrm", "", "absent", "absent", 0)

\* class hierarchy of the tests: ExtendedError and MyError extend Error
SuperClasses(cls) ==
    IF cls \in {"ExtendedError", "MyError", "HandlerError"} THEN {cls, "Error"} ELSE {cls}

\* x instanceof cls
InstanceOf(x, cls) == x.kind = "error" /\ cls \in SuperClasses(x.tag)

Truthy(o) == o.kind \notin {"undefined", "null"}
TypeofObject(o) == o.kind \in {"object", "error", "promise", "thenable", "xrm", "null"}
HasThen(o) == o.kind \in {"promise", "thenable", "xrm"}
HasCatch(o) == o.kind \in {"promise", "xrm"}

(************************ value-shape predicates ***************************)
BAKUtilsIsPromise(o) == Truthy(o) /\ o.kind = "promise"

\* (mutant) probing catch where then is meant
BAKUtilsIsThenableByCatch(o) == Truthy(o) /\ TypeofObject(o) /\ HasCatch(o)

\* (mutant) the typeof o.then test left out
BAKUtilsIsThenableAnyObject(o) == Truthy(o) /\ TypeofObject(o)

BAKUtilsIsThenable(o) == Truthy(o) /\ TypeofObject(o) /\ HasThen(o)

BAKUtilsIsXrmPromiseLike(o) == BAKUtilsIsThenable(o) /\ HasCatch(o)

BAKUtilsIsXrmError(obj) == Truthy(obj) /\ obj.code = "number" /\ obj.msg = "string"

(***************************** the heap ************************************)
\* who settles a promise: the runtime ("derived") or the environment, with
\* the outcome it will deliver ("fulfil" / "reject"), or nobody ("never")
Fate(k, v) == [k |-> k, v |-> v]
Derived == Fate("derived", Undefined)

Heap == [promises |-> promises, reacts |-> reacts, jobs |-> jobs,
         timers |-> timers, calls |-> calls, fnCalls |-> fnCalls]

EmptyHeap == [promises |-> <<>>, reacts |-> <<>>, jobs |-> <<>>,
              timers |-> <<>>, calls |-> <<>>, fnCalls |-> 0]

LastId(H) == Len(H.promises)

NewPromise(H, fate) ==
    [H EXCEPT !.promises = Append(@, [state |-> "pending", value |-> Undefined,
                                      used |-> 0, fate |-> fate]),
              !.reacts = Append(@, <<>>)]

Reaction(type, layer, dst, gen) == [type |-> type, layer |-> layer, dst |-> dst, gen |-> gen]

Job(type, layer, dst, gen, settled, v) ==
    [type |-> type, layer |-> layer, dst |-> dst, gen |-> gen, settled |-> settled, v |-> v]

ReactionJob(r, settled, v) == Job(r.type, r.layer, r.dst, r.gen, settled, v)

\* a pending promise takes its final state and its reactions become jobs
Settle(H, p, settled, v) ==
    [H EXCEPT !.promises[p].state = settled,
              !.promises[p].value = v,
              !.jobs = @ \o [i \in 1..Len(H.reacts[p]) |-> ReactionJob(H.reacts[p][i], settled, v)],
              !.reacts[p] = <<>>]

\* the resolve function of generation gen of promise p, called with x
CallResolve(H, p, gen, x) ==
    IF H.promises[p].used >= gen THEN H
    ELSE LET H1 == [H EXCEPT !.promises[p].used = gen]
         IN  IF HasThen(x)
             THEN [H1 EXCEPT !.jobs = Append(@, Job("thenable", 0, p, gen + 1, "pending", x))]
             ELSE Settle(H1, p, "fulfilled", x)

\* the reject function of generation gen of promise p, called with e
CallReject(H, p, gen, e) ==
    IF H.promises[p].used >= gen THEN H
    ELSE Settle([H EXCEPT !.promises[p].used = gen], p, "rejected", e)

\* src.then(...) with reaction r
Then(H, src, r) ==
    IF H.promises[src].state = "pending"
    THEN [H EXCEPT !.reacts[src] = Append(@, r)]
    ELSE [H EXCEPT !.jobs = Append(@, ReactionJob(r, H.promises[src].state, H.promises[src].value))]

\* (mutant) a new promise that is not chained to src at all
PromiseCatchDetached(H, src, layer) == NewPromise(H, Derived)

\* (mutant) the recovery attached twice in a row: src.catch(h).catch(h)
PromiseCatchTwice(H, src, layer) ==
    LET H1 == NewPromise(H, Derived)
        H2 == Then(H1, src, Reaction("catch", layer, LastId(H1), 1))
        H3 == NewPromise(H2, Derived)
    IN  Then(H3, LastId(H2), Reaction("catch", layer, LastId(H3), 1))

\* (mutant) the recovery left out: src.then()
PromiseCatchDropped(H, src, layer) ==
    LET H1 == NewPromise(H, Derived)
    IN  Then(H1, src, Reaction("adopt", 0, LastId(H1), 1))

\* src.catch(invokeHandler of layer): a new promise derived from src
PromiseCatch(H, src, layer) ==
    LET H1 == NewPromise(H, Derived)
    IN  Then(H1, src, Reaction("catch", layer, LastId(H1), 1))

\* a callback handed to a user thenable
Callback(k, p, gen) == [k |-> k, p |-> p, gen |-> gen]
NoCallback == Callback("none", 0, 0)

\* then(onF, onR) of the user thenables: one setTimeout per call (none when
\* the thenable never settles)
ThenableThen(H, fate, onF, onR) ==
    IF fate.k = "never" THEN H
    ELSE [H EXCEPT !.timers = Append(@, [onF |-> onF, onR |-> onR])]

(***************************** the wrapper *********************************)
Return(v) == [k |-> "return", v |-> v]
Throw(v) == [k |-> "throw", v |-> v]

\* (mutant) the handler called without the function name
HandlerArgsNoName(err, fnName, ctx, args) == <<err, ctx>> \o args

\* handler.call(null, err, fnName, ctx, ...args)
HandlerArgs(err, fnName, ctx, args) == <<err, Str(fnName), ctx>> \o args

\* (mutant) the handler's own exception caught and dropped
invokeHandlerGuarded(C, H, k, err) ==
    LET L == C.layers[k]
        H1 == [H EXCEPT !.calls = Append(@, [layer |-> k,
                                            argv |-> HandlerArgs(err, L.fnName, C.ctx, C.args)])]
    IN  CASE L.handler.k = "return" -> [H |-> H1, out |-> Return(L.handler.v)]
          [] L.handler.k = "throw" -> [H |-> H1, out |-> Return(Undefined)]
          [] OTHER ->
                LET H2 == NewPromise(H1, Fate(L.handler.k, L.handler.v))
                IN  [H |-> H2, out |-> Return(PromiseRef(LastId(H2)))]

\* const invokeHandler = (err) => handler.call(null, err, fnName, ctx, ...args)
invokeHandler(C, H, k, err) ==
    LET L == C.layers[k]
        H1 == [H EXCEPT !.calls = Append(@, [layer |-> k,
                                            argv |-> HandlerArgs(err, L.fnName, C.ctx, C.args)])]
    IN  CASE L.handler.k = "return" -> [H |-> H1, out |-> Return(L.handler.v)]
          [] L.handler.k = "throw" -> [H |-> H1, out |-> Throw(L.handler.v)]
          [] OTHER ->
                LET H2 == NewPromise(H1, Fate(L.handler.k, L.handler.v))
                IN  [H |-> H2, out |-> Return(PromiseRef(LastId(H2)))]

\* (mutant) the catch block without the test for platform error objects
SyncMatchesNoXrm(ErrorClass, syncErr) ==
    \/ ErrorClass = "undefined"
    \/ InstanceOf(syncErr, ErrorClass)

\* (mutant) the catch block without its filter test
SyncMatchesAny(ErrorClass, syncErr) == TRUE

\* the test of the synchronous catch block
SyncMatches(ErrorClass, syncErr) ==
    \/ ErrorClass = "undefined"
    \/ InstanceOf(syncErr, ErrorClass)
    \/ BAKUtilsIsXrmError(syncErr)

\* (mutant) the bridge without its catch: new Promise((ok, bad) => result.then(ok))
XrmBridgeNoCatch(H, fate) ==
    LET H1 == NewPromise(H, Derived)
    IN  ThenableThen(H1, fate, Callback("resolve", LastId(H1), 1), NoCallback)

\* new Promise((ok, bad) => result.then(ok).catch(bad)) over the user's
\* then/catch object, whose catch(bad) is then(undefined, bad)
XrmBridge(H, fate) ==
    LET H1 == NewPromise(H, Derived)
        b == LastId(H1)
        H2 == ThenableThen(H1, fate, Callback("resolve", b, 1), NoCallback)
    IN  ThenableThen(H2, fate, NoCallback, Callback("reject", b, 1))

\* Promise.resolve(result) for a non-native thenable
PromiseResolve(H, result) ==
    LET H1 == NewPromise(H, Derived)
    IN  CallResolve(H1, LastId(H1), 1, result)

\* the body of the wrapper of layer k, given what fn (the layer below) did
createCatchLogic(C, H, k, inner) ==
    IF inner.k = "return"
    THEN LET result == inner.v
         IN  CASE BAKUtilsIsPromise(result) ->
                    LET H1 == PromiseCatch(H, result.n, k)
                    IN  [H |-> H1, out |-> Return(PromiseRef(LastId(H1)))]
               [] ~BAKUtilsIsPromise(result) /\ BAKUtilsIsXrmPromiseLike(result) ->
                    LET H1 == XrmBridge(H, C.fn.fate)
                        H2 == PromiseCatch(H1, LastId(H1), k)
                    IN  [H |-> H2, out |-> Return(PromiseRef(LastId(H2)))]
               [] ~BAKUtilsIsXrmPromiseLike(result) /\ BAKUtilsIsThenable(result) ->
                    LET H1 == PromiseResolve(H, result)
                        H2 == PromiseCatch(H1, LastId(H1), k)
                    IN  [H |-> H2, out |-> Return(PromiseRef(LastId(H2)))]
               [] OTHER -> [H |-> H, out |-> Return(result)]
    ELSE IF SyncMatches(C.layers[k].ErrorClass, inner.v)
         THEN invokeHandler(C, H, k, inner.v)
         ELSE [H |-> H, out |-> Throw(inner.v)]

\* fn.apply(ctx, args) of the wrapped function itself
ApplyFn(C, H) ==
    LET H1 == [H EXCEPT !.fnCalls = @ + 1]
    IN  CASE C.fn.shape = "plain" -> [H |-> H1, out |-> Return(C.fn.v)]
          [] C.fn.shape = "throw" -> [H |-> H1, out |-> Throw(C.fn.v)]
          [] C.fn.shape = "native" ->
                LET H2 == NewPromise(H1, C.fn.fate)
                IN  [H |-> H2, out |-> Return(PromiseRef(LastId(H2)))]
          [] C.fn.shape = "xrm" -> [H |-> H1, out |-> Return(XrmRef)]
          [] OTHER -> [H |-> H1, out |-> Return(ThenableRef)]

\* calling the wrapper of layer k (layer 0 is the wrapped function)
RECURSIVE CallLayer(_, _, _)
CallLayer(C, H, k) ==
    IF k = 0 THEN ApplyFn(C, H)
    ELSE LET R == CallLayer(C, H, k - 1)
         IN  createCatchLogic(C, R.H, k, R.out)

(***************************** entry points ********************************)
Layer(entry, ErrorClass, handler, fnName) ==
    [entry |-> entry, ErrorClass |-> ErrorClass, handler |-> handler, fnName |-> fnName]

\* fn.name || 'anonymous function'
NameOfCallingFunction(name) == IF name = "" THEN "anonymous function" ELSE name

makeDecorator(entry, ErrCls, handler, propertyKey) ==
    Layer(entry, ErrCls, handler, propertyKey)

Catcher(ErrCls, handler, propertyKey) ==
    makeDecorator("Catcher", ErrCls, handler, propertyKey)

DefaultCatcher(handler, propertyKey) ==
    makeDecorator("DefaultCatcher", "Error", handler, propertyKey)

AnyErrorCatcher(handler, propertyKey) ==
    makeDecorator("AnyErrorCatcher", "undefined", handler, propertyKey)

defaultCatcher(name, handler) ==
    Layer("defaultCatcher", "Error", handler, NameOfCallingFunction(name))

catcher(name, ErrCls, handler) ==
    Layer("catcher", ErrCls, handler, NameOfCallingFunction(name))

(***************************** inputs **************************************)
FilterClasses == {"Error", "ExtendedError"}
Throwables == {ErrorOf("Error"), ErrorOf("ExtendedError"), ErrorOf("MyError"),
               Str("boom"), CodeObj("number", "string"), CodeObj("string", "string"), Null}
PlainResults == {Num(2), Undefined, Obj(7)}
Fallback == Str("fallback")
HandlerError == ErrorOf("HandlerError")
Handlers == {Fate("return", Fallback), Fate("throw", HandlerError),
             Fate("fulfil", Fallback), Fate("reject", HandlerError)}
FnNames == {"riskyOperation", ""}
MethodNames == {"boomInst"}
\* an instance, a class constructor (static call), no receiver
Contexts == {Obj(1), Obj(2), Undefined}
ArgVals == {Num(1), Num(2)}
ArgLists == UNION {[1..n -> ArgVals] : n \in 0..MaxArgs}

AsyncFates == {Fate("fulfil", Num(2)), Fate("never", Undefined)}
                 \cup {Fate("reject", e) : e \in Throwables}

FnBehaviours ==
    {[shape |-> "plain", v |-> v, fate |-> Derived] : v \in PlainResults}
    \cup {[shape |-> "throw", v |-> e, fate |-> Derived] : e \in Throwables}
    \cup {[shape |-> s, v |-> Undefined, fate |-> f] :
            s \in {"native", "xrm", "thenable"}, f \in AsyncFates}

\* the wrappers of a function whose name property is n
FunctionLayers(n) ==
    {catcher(n, c, h) : c \in FilterClasses, h \in Handlers}
    \cup {defaultCatcher(n, h) : h \in Handlers}

\* the decorations of a method declared as m
DecoratorLayers(m) ==
    {Catcher(c, h, m) : c \in FilterClasses, h \in Handlers}
    \cup {DefaultCatcher(h, m) : h \in Handlers}
    \cup {AnyErrorCatcher(h, m) : h \in Handlers}

\* name: the name property of the wrapped function / the declared method name
Config(layers, name, ctx, args, fn) ==
    [layers |-> layers, name |-> name, ctx |-> ctx, args |-> args, fn |-> fn]

NoConfig ==
    Config(<<>>, "", Undefined, <<>>, [shape |-> "plain", v |-> Undefined, fate |-> Derived])

\* no Option / Result expression is evaluated in an invocation of a wrapper
NoInputs == [x |-> Undefined, d |-> Undefined, f |-> Undefined, g |-> Undefined]
NoOutcome == [out |-> Return(Undefined), calls |-> <<>>]

(***************************** actions *************************************)
Init ==
    /\ pc = "idle"
    /\ cfg = NoConfig
    /\ ret = Return(Undefined)
    /\ promises = <<>>
    /\ reacts = <<>>
    /\ jobs = <<>>
    /\ timers = <<>>
    /\ calls = <<>>
    /\ fnCalls = 0
    /\ inp = NoInputs
    /\ op = ""
    /\ alt = NoOutcome
    /\ steps = 0

SetHeap(H) ==
    /\ promises' = H.promises
    /\ reacts' = H.reacts
    /\ jobs' = H.jobs
    /\ timers' = H.timers
    /\ calls' = H.calls
    /\ fnCalls' = H.fnCalls

\* the wrapper is called: its whole synchronous part
InvokeWith(C) ==
    /\ pc = "idle"
    /\ LET R == CallLayer(C, EmptyHeap, Len(C.layers))
       IN  /\ SetHeap(R.H)
           /\ ret' = R.out
    /\ cfg' = C
    /\ pc' = "called"
    /\ UNCHANGED dataVars

\* a call of a wrapper made by catcher / defaultCatcher
InvokeFunction ==
    /\ pc = "idle"
    /\ \E n \in FnNames, c \in Contexts, a \in ArgLists, f \in FnBehaviours :
          \E L \in FunctionLayers(n) : InvokeWith(Config(<<L>>, n, c, a, f))

\* a call of a method decorated with Catcher / DefaultCatcher / AnyErrorCatcher
InvokeMethod ==
    /\ pc = "idle"
    /\ \E m \in MethodNames, c \in Contexts, a \in ArgLists, f \in FnBehaviours :
          \E L \in DecoratorLayers(m) : InvokeWith(Config(<<L>>, m, c, a, f))

\* microtask: the reaction attached by .catch(invokeHandler)
CatchReactionJob ==
    /\ jobs # <<>>
    /\ Head(jobs).type = "catch"
    /\ LET j == Head(jobs)
           H0 == [Heap EXCEPT !.jobs = Tail(@)]
       IN  IF j.settled = "fulfilled"
           THEN SetHeap(CallResolve(H0, j.dst, j.gen, j.v))
           ELSE LET R == invokeHandler(cfg, H0, j.layer, j.v)
                IN  IF R.out.k = "return"
                    THEN SetHeap(CallResolve(R.H, j.dst, j.gen, R.out.v))
                    ELSE SetHeap(CallReject(R.H, j.dst, j.gen, R.out.v))
    /\ UNCHANGED <<pc, cfg, ret>>
    /\ UNCHANGED dataVars

\* microtask: a promise resolved with a thenable calls its then
ResolveThenableJob ==
    /\ jobs # <<>>
    /\ Head(jobs).type = "thenable"
    /\ LET j == Head(jobs)
           H0 == [Heap EXCEPT !.jobs = Tail(@)]
       IN  IF j.v.kind = "promise"
           THEN SetHeap(Then(H0, j.v.n, Reaction("adopt", 0, j.dst, j.gen)))
           ELSE SetHeap(ThenableThen(H0, cfg.fn.fate, Callback("resolve", j.dst, j.gen),
                                     Callback("reject", j.dst, j.gen)))
    /\ UNCHANGED <<pc, cfg, ret>>
    /\ UNCHANGED dataVars

\* microtask: the adopted promise settled
AdoptReactionJob ==
    /\ jobs # <<>>
    /\ Head(jobs).type = "adopt"
    /\ LET j == Head(jobs)
           H0 == [Heap EXCEPT !.jobs = Tail(@)]
       IN  IF j.settled = "fulfilled"
           THEN SetHeap(CallResolve(H0, j.dst, j.gen, j.v))
           ELSE SetHeap(CallReject(H0, j.dst, j.gen, j.v))
    /\ UNCHANGED <<pc, cfg, ret>>
    /\ UNCHANGED dataVars

\* the environment settles a native promise it owns
SettleNative ==
    /\ pc = "called"
    /\ jobs = <<>>
    /\ \E p \in 1..Len(promises) :
        /\ promises[p].state = "pending"
        /\ promises[p].fate.k \in {"fulfil", "reject"}
        /\ SetHeap(Settle(Heap, p,
                          IF promises[p].fate.k = "fulfil" THEN "fulfilled" ELSE "rejected",
                          promises[p].fate.v))
    /\ UNCHANGED <<pc, cfg, ret>>
    /\ UNCHANGED dataVars

\* the oldest timer of the user thenable fires and calls onRejected or onFulfilled
TimerFire ==
    /\ pc = "called"
    /\ jobs = <<>>
    /\ timers # <<>>
    /\ LET t == Head(timers)
           H0 == [Heap EXCEPT !.timers = Tail(@)]
           cb == IF cfg.fn.fate.k = "reject" THEN t.onR ELSE t.onF
       IN  CASE cb.k = "resolve" -> SetHeap(CallResolve(H0, cb.p, cb.gen, cfg.fn.fate.v))
             [] cb.k = "reject" -> SetHeap(CallReject(H0, cb.p, cb.gen, cfg.fn.fate.v))
             [] OTHER -> SetHeap(H0)
    /\ UNCHANGED <<pc, cfg, ret>>
    /\ UNCHANGED dataVars

Next ==
    \/ InvokeFunction
    \/ InvokeMethod
    \/ CatchReactionJob
    \/ ResolveThenableJob
    \/ AdoptReactionJob
    \/ SettleNative
    \/ TimerFire

Spec == Init /\ [][Next]_vars

\* the host runs every queued microtask and every due timer, and a native
\* promise whose computation ends is settled; nothing obliges a caller to
\* call the wrapper
Fairness ==
    /\ WF_vars(CatchReactionJob)
    /\ WF_vars(ResolveThenableJob)
    /\ WF_vars(AdoptReactionJob)
    /\ WF_vars(SettleNative)
    /\ WF_vars(TimerFire)

FairSpec == Spec /\ Fairness

(***************************** Option and Result ***************************)
\* value === null || value === undefined
Nullish(value) == value.kind \in {"undefined", "null"}
\* typeof value === 'function'
IsFunction(value) == value.kind = "function"
\* value.type, undefined when value has no such member
TypeOf(value) == IF "type" \in DOMAIN value THEN value.type ELSE "undefined"

\* a zero-argument function, by what a call of it does
Producer(does) == Val("function", does, "absent", "absent", 0)
\* a one-argument callback, by what it does with a number and with any other argument
Mapper(name, onNum, onOther) ==
    [kind |-> "function", name |-> name, onNum |-> onNum, onOther |-> onOther]
\* x => g(f(x))
Composed(f, g) == [kind |-> "function", inner |-> f, outer |-> g]

\* what the callbacks of the inputs throw
CallbackError == ErrorOf("Error")
\* new Error("Some() cannot be called with null or undefined")
SomeError == Val("error", "Error", "absent", "string", 1)
\* new Error('Cannot unwrap None')
UnwrapError == Val("error", "Error", "absent", "string", 2)

Returns(H, v) == [H |-> H, out |-> Return(v)]
Throws(H, e) == [H |-> H, out |-> Throw(e)]
\* the part R of an expression threw, which ends the expression
Threw(R) == R.out.k = "throw"

\* the object literal Some returns; ref tells a new object from the None constant
SomeObject(value) == [kind |-> "object", type |-> "some", value |-> value, ref |-> "new"]
None == [kind |-> "object", type |-> "none", value |-> Undefined, ref |-> "None"]
Ok(value) == [kind |-> "object", type |-> "ok", value |-> value]
Err(error) == [kind |-> "object", type |-> "error", error |-> error]

\* an async arrow function whose body did R: the promise it returns
AsyncFunction(R) ==
    LET H1 == NewPromise(R.H, Derived)
        p == LastId(H1)
    IN  IF Threw(R)
        THEN Returns(CallReject(H1, p, 1, R.out.v), PromiseRef(p))
        ELSE Returns(CallResolve(H1, p, 1, R.out.v), PromiseRef(p))

\* _ => on.method(arg), an async arrow function when async
Continuation(method, on, arg, async) ==
    [kind |-> "function", method |-> method, on |-> on, arg |-> arg, async |-> async]

\* fn(...argv): the call is recorded, then fn does what it is made to do
RECURSIVE Call(_, _, _)
RECURSIVE map(_, _, _)
RECURSIVE flatMap(_, _, _)
RECURSIVE flatMapAsync(_, _, _)
Call(H, fn, argv) ==
    IF "inner" \in DOMAIN fn
    THEN LET R == Call(H, fn.inner, argv)
         IN  IF Threw(R) THEN R ELSE Call(R.H, fn.outer, <<R.out.v>>)
    ELSE IF "method" \in DOMAIN fn
    THEN LET H1 == [H EXCEPT !.calls = Append(@, [fn |-> fn, argv |-> argv])]
             R == CASE fn.method = "map" -> map(H1, fn.on, fn.arg)
                    [] fn.method = "flatMap" -> flatMap(H1, fn.on, fn.arg)
                    [] OTHER -> flatMapAsync(H1, fn.on, fn.arg)
         IN  IF fn.async THEN AsyncFunction(R) ELSE R
    ELSE LET H1 == [H EXCEPT !.calls = Append(@, [fn |-> fn, argv |-> argv])]
             does == CASE "name" \notin DOMAIN fn -> fn.tag
                       [] "name" \in DOMAIN fn /\ argv[1].kind = "number" -> fn.onNum
                       [] OTHER -> fn.onOther
         IN  CASE does = "same" -> Returns(H1, argv[1])
               [] does = "succ" -> Returns(H1, Num(argv[1].n + 1))
               [] does = "number" -> Returns(H1, Num(1))
               [] does = "null" -> Returns(H1, Null)
               [] does = "undefined" -> Returns(H1, Undefined)
               [] does = "throw" -> Throws(H1, CallbackError)
               [] does = "some" -> Returns(H1, SomeObject(argv[1]))
               [] does = "none" -> Returns(H1, None)
               [] does = "producer" -> Returns(H1, Producer("null"))
               [] OTHER ->
                     LET H2 == NewPromise(H1, Fate("fulfil", SomeObject(argv[1])))
                     IN  Returns(H2, PromiseRef(LastId(H2)))

\* typeof df === 'function' ? df() : df
getFnValue(H, df) == IF IsFunction(df) THEN Call(H, df, <<>>) ELSE Returns(H, df)

isOption(value) ==
    IF Nullish(value) THEN FALSE
    ELSE \/ TypeofObject(value) /\ Truthy(value) /\ "type" \in DOMAIN value
                /\ TypeOf(value) = "some"
         \/ TypeOf(value) = "none"

isResult(result) ==
    /\ Truthy(result)
    /\ \/ TypeOf(result) = "ok" /\ "value" \in DOMAIN result
       \/ TypeOf(result) = "error" /\ "error" \in DOMAIN result

\* (mutant) no test of the value
SomeUnchecked(H, value) == Returns(H, SomeObject(value))

Some(H, value) ==
    IF Nullish(value) THEN Throws(H, SomeError) ELSE Returns(H, SomeObject(value))

\* (mutant) no try / catch around the producer
OptionUnguarded(H, value) ==
    IF IsFunction(value)
    THEN LET R == getFnValue(H, value)
         IN  IF Threw(R) THEN R
             ELSE IF Nullish(R.out.v) THEN Returns(R.H, None) ELSE Some(R.H, R.out.v)
    ELSE IF Nullish(value) THEN Returns(H, None) ELSE Some(H, value)

\* (mutant) a new none-like object instead of the None constant
OptionFreshNone(H, value) ==
    IF Nullish(value) THEN Returns(H, [None EXCEPT !.ref = "new"]) ELSE Some(H, value)

\* the smart constructor: a function is a producer and is invoked, its
\* exception logged and dropped
Option(H, value) ==
    IF IsFunction(value)
    THEN LET R == getFnValue(H, value)
         IN  IF Threw(R) THEN Returns(R.H, None)
             ELSE IF Nullish(R.out.v) THEN Returns(R.H, None) ELSE Some(R.H, R.out.v)
    ELSE IF Nullish(value) THEN Returns(H, None) ELSE Some(H, value)

(* methods; self is the object the method is read from *)
isSome(self) == IF self.type = "some" THEN TRUE ELSE FALSE
isNone(self) == IF self.type = "some" THEN FALSE ELSE TRUE
isOk(self) == IF self.type = "ok" THEN TRUE ELSE FALSE
isErr(self) == IF self.type = "ok" THEN FALSE ELSE TRUE
\* unwrap() of either type
unwrap(self) ==
    CASE self.type \in {"some", "ok"} -> Return(self.value)
      [] self.type = "none" -> Throw(UnwrapError)
      [] OTHER -> Throw(self.error)

\* (mutant) fn applied twice
SomeMapTwice(H, self, fn) ==
    LET R == Call(H, fn, <<self.value>>)
        R2 == Call(R.H, fn, <<R.out.v>>)
    IN  IF Threw(R) THEN R
        ELSE IF Threw(R2) THEN R2 ELSE Some(R2.H, R2.out.v)

\* map: (fn) => Some(fn(value))
SomeMap(H, self, fn) ==
    LET R == Call(H, fn, <<self.value>>)
    IN  IF Threw(R) THEN R ELSE Some(R.H, R.out.v)

\* (mutant) the callback's result wrapped again
SomeFlatMapWrapped(H, self, fn) ==
    LET R == Call(H, fn, <<self.value>>)
    IN  IF Threw(R) THEN R ELSE Some(R.H, R.out.v)

\* flatMap: (fn) => fn(value)
SomeFlatMap(H, self, fn) == Call(H, fn, <<self.value>>)

\* flatMapAsync: async (fn) => fn(value)
SomeFlatMapAsync(H, self, fn) == AsyncFunction(Call(H, fn, <<self.value>>))

\* okOr: (_err) => Ok(value)
SomeOkOr(H, self, err) == Returns(H, Ok(self.value))

\* (mutant) the default never consulted
SomeMapOrNoDefault(H, self, fn, defaultValue) ==
    LET R == Call(H, fn, <<self.value>>)
    IN  IF Threw(R) THEN R ELSE Option(R.H, R.out.v)

SomeMapOr(H, self, fn, defaultValue) ==
    LET R == Call(H, fn, <<self.value>>)
        option == Option(R.H, R.out.v)
        D == getFnValue(option.H, defaultValue)
    IN  IF Threw(R) THEN R
        ELSE IF Threw(option) THEN option
        ELSE IF isNone(option.out.v)
             THEN IF Threw(D) THEN D ELSE Option(D.H, D.out.v)
             ELSE option

\* map: () => None
NoneMap(H, fn) == Returns(H, None)
\* flatMap: (_fn) => None
NoneFlatMap(H, fn) == Returns(H, None)
\* flatMapAsync: async (_fn) => None
NoneFlatMapAsync(H, fn) == AsyncFunction(Returns(H, None))

\* (mutant) the error argument stored as given
NoneOkOrRaw(H, err) == Returns(H, Err(err))

\* okOr: (err) => Err(getFnValue(err))
NoneOkOr(H, err) ==
    LET R == getFnValue(H, err)
    IN  IF Threw(R) THEN R ELSE Returns(R.H, Err(R.out.v))

\* mapOr: (_fn, defaultValue) => Option(getFnValue(defaultValue))
NoneMapOr(H, fn, defaultValue) ==
    LET D == getFnValue(H, defaultValue)
    IN  IF Threw(D) THEN D ELSE Option(D.H, D.out.v)

\* (mutant) the value forgotten like an error
OkToOptionNone(H, self) == Returns(H, None)

\* toOption: () => Option(value)
OkToOption(H, self) == Option(H, self.value)

\* toOption: () => None
ErrToOption(H, self) == Returns(H, None)

\* (mutant) the callback's exception let through
OkMapUnguarded(H, self, fn) ==
    LET R == Call(H, fn, <<self.value>>)
    IN  IF Threw(R) THEN R ELSE Returns(R.H, Ok(R.out.v))

\* map: try { return Ok(fn(value)) } catch (error) { return Err(error) }
OkMap(H, self, fn) ==
    LET R == Call(H, fn, <<self.value>>)
    IN  IF Threw(R) THEN Returns(R.H, Err(R.out.v)) ELSE Returns(R.H, Ok(R.out.v))

\* the this of the call Err(error), a plain call in module code; the arrow
\* functions of the object literal close over it
ErrThis == Undefined

\* map: (_fn) => { return this; }
ErrMap(H, self, fn) == Returns(H, ErrThis)

\* flatMap: (fn) => fn(value)
OkFlatMap(H, self, fn) == Call(H, fn, <<self.value>>)
\* flatMap: () => Err(error)
ErrFlatMap(H, self, fn) == Returns(H, Err(self.error))
\* flatMapAsync: async (fn) => fn(value)
OkFlatMapAsync(H, self, fn) == AsyncFunction(Call(H, fn, <<self.value>>))
\* flatMapAsync: async () => Err(error)
ErrFlatMapAsync(H, self, fn) == AsyncFunction(Returns(H, Err(self.error)))

\* new Error('Cannot flatten a non-option value')
FlattenError == Val("error", "Error", "absent", "string", 3)
\* the DataCloneError structuredClone throws for what it cannot copy
DataCloneError == Val("error", "DataCloneError", "absent", "string", 0)
\* true / false
Bool(b) == Val("boolean", IF b THEN "true" ELSE "false", "absent", "absent", 0)

\* (mutant) the contained value returned whatever it is
SomeFlattenUnchecked(H, self) == Returns(H, self.value)

\* flatten: the contained Option when it is a Some, an error otherwise
SomeFlatten(H, self) ==
    IF isOption(self.value) /\ isSome(self.value)
    THEN Returns(H, self.value)
    ELSE Throws(H, FlattenError)

\* flatten: () => None
NoneFlatten(H) == Returns(H, None)

\* structuredClone(v): primitives are copied by value; a function, or an
\* object with function members, cannot be copied
structuredClone(H, v) ==
    IF IsFunction(v) \/ "type" \in DOMAIN v
    THEN Throws(H, DataCloneError)
    ELSE Returns(H, v)

\* this inside the arrow functions of the object Some(value) returns: the this
\* of the call Some(value), a plain call in module code
SomeThis == Undefined
\* clone: () => structuredClone(this)
SomeClone(H, self) == structuredClone(H, SomeThis)
\* clone: () => None
NoneClone(H) == Returns(H, None)

\* isSome: () => true, whatever the arguments argv of the call
SomeIsSome(H, self, argv) == Returns(H, Bool(isSome(self)))
\* isSome: () => false
NoneIsSome(H, argv) == Returns(H, Bool(isSome(None)))
\* isNone: () => false
SomeIsNone(H, self) == Returns(H, Bool(isNone(self)))
\* isNone: () => true
NoneIsNone(H) == Returns(H, Bool(isNone(None)))

\* o.map(fn): the map member of whatever object o is
map(H, o, fn) ==
    CASE o.type = "some" -> SomeMap(H, o, fn)
      [] o.type = "none" -> NoneMap(H, fn)
      [] o.type = "ok" -> OkMap(H, o, fn)
      [] OTHER -> ErrMap(H, o, fn)

\* o.flatMap(fn)
flatMap(H, o, fn) ==
    CASE o.type = "some" -> SomeFlatMap(H, o, fn)
      [] o.type = "none" -> NoneFlatMap(H, fn)
      [] o.type = "ok" -> OkFlatMap(H, o, fn)
      [] OTHER -> ErrFlatMap(H, o, fn)

\* o.mapOr(fn, df)
mapOr(H, o, fn, df) ==
    IF o.type = "some" THEN SomeMapOr(H, o, fn, df) ELSE NoneMapOr(H, fn, df)

\* o.okOr(err)
okOr(H, o, err) ==
    IF o.type = "some" THEN SomeOkOr(H, o, err) ELSE NoneOkOr(H, err)

\* o.flatten()
flatten(H, o) ==
    IF o.type = "some" THEN SomeFlatten(H, o) ELSE NoneFlatten(H)

\* r.toOption()
toOption(H, r) ==
    IF r.type = "ok" THEN OkToOption(H, r) ELSE ErrToOption(H, r)

\* o.flatMapAsync(fn)
flatMapAsync(H, o, fn) ==
    CASE o.type = "some" -> SomeFlatMapAsync(H, o, fn)
      [] o.type = "none" -> NoneFlatMapAsync(H, fn)
      [] o.type = "ok" -> OkFlatMapAsync(H, o, fn)
      [] OTHER -> ErrFlatMapAsync(H, o, fn)

(************************ Option / Result inputs ***************************)
Numbers == {Num(n) : n \in 1..MaxNum}
Producers == {Producer(does) : does \in {"number", "null", "undefined", "throw"}}
\* what an Option / Result is built from
Values == {Null, Undefined} \cup Numbers \cup Producers
\* a default value / error argument: a value or a producer
Defaults == {Str("d"), Null, Undefined} \cup Producers
Mappers(name) ==
    {Mapper(name, a, b) :
        a \in {"same", "succ", "null", "undefined", "throw", "some", "none",
               "producer", "promise"},
        b \in {"one", "null", "throw"}}

Inputs == [x : Values, d : Defaults, f : Mappers("f"), g : Mappers("g")]

(************************ Option / Result actions **************************)
DataInit ==
    /\ pc = "idle"
    /\ cfg = NoConfig
    /\ ret = Return(Undefined)
    /\ promises = <<>>
    /\ reacts = <<>>
    /\ jobs = <<>>
    /\ timers = <<>>
    /\ calls = <<>>
    /\ fnCalls = 0
    /\ inp \in Inputs
    /\ op = ""
    /\ alt = NoOutcome
    /\ steps = 0

\* an expression is evaluated: its whole synchronous part
Evaluate(name, R) ==
    /\ SetHeap(R.H)
    /\ ret' = R.out
    /\ op' = name
    /\ pc' = "called"
    /\ steps' = steps + 1
    /\ UNCHANGED <<cfg, inp>>

\* the receiver Some(x) of a method call
SomeX == Some(EmptyHeap, inp.x).out.v

OptionCall ==
    /\ pc = "idle"
    /\ Evaluate("Option(x)", Option(EmptyHeap, inp.x))
    /\ UNCHANGED alt

SomeMapCall ==
    /\ pc = "idle"
    /\ ~Nullish(inp.x)
    /\ Evaluate("Some(x).map(f)", SomeMap(EmptyHeap, SomeX, inp.f))
    /\ UNCHANGED alt

NoneMapCall ==
    /\ pc = "idle"
    /\ Evaluate("None.map(f)", NoneMap(EmptyHeap, inp.f))
    /\ UNCHANGED alt

\* Some(x).map(f).map(g) and Some(x).map(x => g(f(x))), each evaluated on its own
SomeMapMapCall ==
    /\ pc = "idle"
    /\ ~Nullish(inp.x)
    /\ LET R == map(EmptyHeap, SomeX, inp.f)
       IN  Evaluate("Some(x).map(f).map(g)",
                    IF Threw(R) THEN R ELSE map(R.H, R.out.v, inp.g))
    /\ LET R == map(EmptyHeap, SomeX, Composed(inp.f, inp.g))
       IN  alt' = [out |-> R.out, calls |-> R.H.calls]

SomeFlatMapCall ==
    /\ pc = "idle"
    /\ ~Nullish(inp.x)
    /\ Evaluate("Some(x).flatMap(f)", SomeFlatMap(EmptyHeap, SomeX, inp.f))
    /\ UNCHANGED alt

NoneFlatMapCall ==
    /\ pc = "idle"
    /\ Evaluate("None.flatMap(f)", NoneFlatMap(EmptyHeap, inp.f))
    /\ UNCHANGED alt

SomeFlatMapAsyncCall ==
    /\ pc = "idle"
    /\ ~Nullish(inp.x)
    /\ Evaluate("Some(x).flatMapAsync(f)", SomeFlatMapAsync(EmptyHeap, SomeX, inp.f))
    /\ UNCHANGED alt

NoneFlatMapAsyncCall ==
    /\ pc = "idle"
    /\ Evaluate("None.flatMapAsync(f)", NoneFlatMapAsync(EmptyHeap, inp.f))
    /\ UNCHANGED alt

SomeMapOrCall ==
    /\ pc = "idle"
    /\ ~Nullish(inp.x)
    /\ Evaluate("Some(x).mapOr(f, d)", SomeMapOr(EmptyHeap, SomeX, inp.f, inp.d))
    /\ UNCHANGED alt

NoneMapOrCall ==
    /\ pc = "idle"
    /\ Evaluate("None.mapOr(f, d)", NoneMapOr(EmptyHeap, inp.f, inp.d))
    /\ UNCHANGED alt

SomeOkOrCall ==
    /\ pc = "idle"
    /\ ~Nullish(inp.x)
    /\ Evaluate("Some(x).okOr(d)", SomeOkOr(EmptyHeap, SomeX, inp.d))
    /\ UNCHANGED alt

NoneOkOrCall ==
    /\ pc = "idle"
    /\ Evaluate("None.okOr(d)", NoneOkOr(EmptyHeap, inp.d))
    /\ UNCHANGED alt

OkToOptionCall ==
    /\ pc = "idle"
    /\ Evaluate("Ok(x).toOption()", OkToOption(EmptyHeap, Ok(inp.x)))
    /\ UNCHANGED alt

ErrToOptionCall ==
    /\ pc = "idle"
    /\ Evaluate("Err(x).toOption()", ErrToOption(EmptyHeap, Err(inp.x)))
    /\ UNCHANGED alt

OkMapCall ==
    /\ pc = "idle"
    /\ Evaluate("Ok(x).map(f)", OkMap(EmptyHeap, Ok(inp.x), inp.f))
    /\ UNCHANGED alt

ErrMapCall ==
    /\ pc = "idle"
    /\ Evaluate("Err(x).map(f)", ErrMap(EmptyHeap, Err(inp.x), inp.f))
    /\ UNCHANGED alt

DataNext ==
    \/ OptionCall
    \/ SomeMapCall
    \/ NoneMapCall
    \/ SomeMapMapCall
    \/ SomeFlatMapCall
    \/ NoneFlatMapCall
    \/ SomeFlatMapAsyncCall
    \/ NoneFlatMapAsyncCall
    \/ SomeMapOrCall
    \/ NoneMapOrCall
    \/ SomeOkOrCall
    \/ NoneOkOrCall
    \/ OkToOptionCall
    \/ ErrToOptionCall
    \/ OkMapCall
    \/ ErrMapCall
    \/ ResolveThenableJob
    \/ AdoptReactionJob
    \/ SettleNative

DataSpec == DataInit /\ [][DataNext]_vars

(************************ chained services *********************************)
\* OrderError, UserError, NotificationError of the three services
ServiceErrors == <<"OrderError", "UserError", "NotificationError">>
\* what service i returns: Ok of its own value, or Err of its own error
Service(i, how) == IF how = "ok" THEN Ok(Num(i)) ELSE Err(ErrorOf(ServiceErrors[i]))
Step(i) == Service(i, inp.steps[i])

\* orderService(..).flatMap(_ => userService(..).flatMap(_ =>
\*     notificationService(..).map(g)))
processOrder(H, r1, r2, r3, g) ==
    flatMap(H, r1,
            Continuation("flatMap", r2, Continuation("map", r3, g, FALSE), FALSE))

\* the same chain with flatMapAsync and async arrow functions
processOrderAsync(H, r1, r2, r3, g) ==
    flatMapAsync(H, r1,
                 Continuation("flatMapAsync", r2, Continuation("map", r3, g, TRUE), TRUE))

ChainInputs == [g : Mappers("g"), steps : [1..3 -> {"ok", "error"}]]

ChainInit ==
    /\ pc = "idle"
    /\ cfg = NoConfig
    /\ ret = Return(Undefined)
    /\ promises = <<>>
    /\ reacts = <<>>
    /\ jobs = <<>>
    /\ timers = <<>>
    /\ calls = <<>>
    /\ fnCalls = 0
    /\ inp \in ChainInputs
    /\ op = ""
    /\ alt = NoOutcome
    /\ steps = 0

FlatMapCall ==
    /\ pc = "idle"
    /\ Evaluate("r1.flatMap(g)", flatMap(EmptyHeap, Step(1), inp.g))
    /\ UNCHANGED alt

FlatMapAsyncCall ==
    /\ pc = "idle"
    /\ Evaluate("r1.flatMapAsync(g)", flatMapAsync(EmptyHeap, Step(1), inp.g))
    /\ UNCHANGED alt

ProcessOrderCall ==
    /\ pc = "idle"
    /\ Evaluate("processOrder", processOrder(EmptyHeap, Step(1), Step(2), Step(3), inp.g))
    /\ UNCHANGED alt

ProcessOrderAsyncCall ==
    /\ pc = "idle"
    /\ Evaluate("processOrderAsync",
                processOrderAsync(EmptyHeap, Step(1), Step(2), Step(3), inp.g))
    /\ UNCHANGED alt

ChainNext ==
    \/ FlatMapCall
    \/ FlatMapAsyncCall
    \/ ProcessOrderCall
    \/ ProcessOrderAsyncCall
    \/ ResolveThenableJob
    \/ AdoptReactionJob
    \/ SettleNative

ChainSpec == ChainInit /\ [][ChainNext]_vars

(************************ Option members ***********************************)
\* x: what the Option is built from; w: the argument passed to isSome
OptionInputs == [x : Values, w : Values]

OptionInit ==
    /\ pc = "idle"
    /\ cfg = NoConfig
    /\ ret = Return(Undefined)
    /\ promises = <<>>
    /\ reacts = <<>>
    /\ jobs = <<>>
    /\ timers = <<>>
    /\ calls = <<>>
    /\ fnCalls = 0
    /\ inp \in OptionInputs
    /\ op = ""
    /\ alt = NoOutcome
    /\ steps = 0

SomeFlattenCall ==
    /\ pc = "idle"
    /\ ~Nullish(inp.x)
    /\ Evaluate("Some(x).flatten()", SomeFlatten(EmptyHeap, SomeX))
    /\ UNCHANGED alt

SomeSomeFlattenCall ==
    /\ pc = "idle"
    /\ ~Nullish(inp.x)
    /\ Evaluate("Some(Some(x)).flatten()", SomeFlatten(EmptyHeap, SomeObject(SomeX)))
    /\ UNCHANGED alt

SomeNoneFlattenCall ==
    /\ pc = "idle"
    /\ Evaluate("Some(None).flatten()", SomeFlatten(EmptyHeap, SomeObject(None)))
    /\ UNCHANGED alt

NoneFlattenCall ==
    /\ pc = "idle"
    /\ Evaluate("None.flatten()", NoneFlatten(EmptyHeap))
    /\ UNCHANGED alt

SomeCloneCall ==
    /\ pc = "idle"
    /\ ~Nullish(inp.x)
    /\ Evaluate("Some(x).clone()", SomeClone(EmptyHeap, SomeX))
    /\ UNCHANGED alt

NoneCloneCall ==
    /\ pc = "idle"
    /\ Evaluate("None.clone()", NoneClone(EmptyHeap))
    /\ UNCHANGED alt

SomeIsSomeCall ==
    /\ pc = "idle"
    /\ ~Nullish(inp.x)
    /\ Evaluate("Some(x).isSome()", SomeIsSome(EmptyHeap, SomeX, <<>>))
    /\ UNCHANGED alt

SomeIsSomeOfCall ==
    /\ pc = "idle"
    /\ ~Nullish(inp.x)
    /\ Evaluate("Some(x).isSome(w)", SomeIsSome(EmptyHeap, SomeX, <<inp.w>>))
    /\ UNCHANGED alt

NoneIsSomeCall ==
    /\ pc = "idle"
    /\ Evaluate("None.isSome()", NoneIsSome(EmptyHeap, <<>>))
    /\ UNCHANGED alt

NoneIsSomeOfCall ==
    /\ pc = "idle"
    /\ Evaluate("None.isSome(w)", NoneIsSome(EmptyHeap, <<inp.w>>))
    /\ UNCHANGED alt

SomeIsNoneCall ==
    /\ pc = "idle"
    /\ ~Nullish(inp.x)
    /\ Evaluate("Some(x).isNone()", SomeIsNone(EmptyHeap, SomeX))
    /\ UNCHANGED alt

NoneIsNoneCall ==
    /\ pc = "idle"
    /\ Evaluate("None.isNone()", NoneIsNone(EmptyHeap))
    /\ UNCHANGED alt

OptionNext ==
    \/ SomeFlattenCall
    \/ SomeSomeFlattenCall
    \/ SomeNoneFlattenCall
    \/ NoneFlattenCall
    \/ SomeCloneCall
    \/ NoneCloneCall
    \/ SomeIsSomeCall
    \/ SomeIsSomeOfCall
    \/ NoneIsSomeCall
    \/ NoneIsSomeOfCall
    \/ SomeIsNoneCall
    \/ NoneIsNoneCall

OptionSpec == OptionInit /\ [][OptionNext]_vars

(************************ sequences of calls *******************************)
\* callbacks that return at once
SeqMappers == {m \in Mappers("f") : m.onNum # "promise"}
\* what the last call returned, when it returned
Current == IF ret.k = "return" THEN {ret.v} ELSE {}
CurrentIsOption == ret.k = "return" /\ isOption(ret.v)
CurrentIsResult == ret.k = "return" /\ isResult(ret.v)

\* one more call, made with argument arg, did R
Proceed(name, arg, R) ==
    /\ steps < MaxSteps
    /\ SetHeap(R.H)
    /\ ret' = R.out
    /\ op' = name
    /\ inp' = [NoInputs EXCEPT !.x = arg]
    /\ steps' = steps + 1
    /\ pc' = "called"
    /\ UNCHANGED <<cfg, alt>>

\* Some(v), v an input value or what the last call returned
SomeStep ==
    \E v \in Values \cup Current : Proceed("Some", v, Some(EmptyHeap, v))

OptionStep ==
    \E v \in Values \cup Current : Proceed("Option", v, Option(EmptyHeap, v))

MapStep ==
    /\ CurrentIsOption
    /\ \E f \in SeqMappers : Proceed("map", f, map(EmptyHeap, ret.v, f))

MapOrStep ==
    /\ CurrentIsOption
    /\ \E f \in SeqMappers, d \in Defaults :
          Proceed("mapOr", f, mapOr(EmptyHeap, ret.v, f, d))

OkOrStep ==
    /\ CurrentIsOption
    /\ \E d \in Defaults : Proceed("okOr", d, okOr(EmptyHeap, ret.v, d))

ToOptionStep ==
    /\ CurrentIsResult
    /\ Proceed("toOption", Undefined, toOption(EmptyHeap, ret.v))

FlattenStep ==
    /\ CurrentIsOption
    /\ Proceed("flatten", Undefined, flatten(EmptyHeap, ret.v))

SeqNext ==
    \/ SomeStep
    \/ OptionStep
    \/ MapStep
    \/ MapOrStep
    \/ OkOrStep
    \/ ToOptionStep
    \/ FlattenStep

SeqSpec == Init /\ [][SeqNext]_vars

(***************************** ResultTry ***********************************)
\* the truth value of v in a condition: if (v)
ToBoolean(v) ==
    /\ ~Nullish(v)
    /\ ~(v.kind = "number" /\ v.n = 0)
    /\ ~(v.kind = "string" /\ v.tag = "")
    /\ v # Bool(FALSE)

\* the catch block of ResultTry, which settles the promise p of the call
ResultTryCatch(C, H, p, errorCase, originalError) ==
    IF IsFunction(errorCase)
    THEN LET R == Call(H, errorCase, <<originalError>> \o C.args)
         IN  IF Threw(R) THEN CallReject(R.H, p, 1, R.out.v)
             ELSE CallResolve(R.H, p, 1, Err(R.out.v))
    ELSE IF ToBoolean(errorCase)
         THEN CallResolve(H, p, 1, Err(errorCase))
         ELSE CallResolve(H, p, 1, Err(originalError))

\* await Promise.resolve(result): the rest of the body becomes a reaction
AwaitResult(H, p, result) ==
    IF BAKUtilsIsPromise(result)
    THEN Then(H, result.n, Reaction("await", 0, p, 1))
    ELSE LET H1 == PromiseResolve(H, result)
         IN  Then(H1, LastId(H1), Reaction("await", 0, p, 1))

\* ResultTry(fn, args, errorCase) up to its first await: the promise of the call
ResultTry(C, H, errorCase) ==
    LET H1 == NewPromise(H, Derived)
        p == LastId(H1)
        R == ApplyFn(C, H1)
        result == R.out.v
    IN  IF Threw(R)
        THEN Returns(ResultTryCatch(C, R.H, p, errorCase, R.out.v), PromiseRef(p))
        ELSE IF ~Nullish(result) /\ HasThen(result)
             THEN Returns(AwaitResult(R.H, p, result), PromiseRef(p))
             ELSE Returns(CallResolve(R.H, p, 1, Ok(result)), PromiseRef(p))

\* a fixed error, fixed values that are falsy, a mapping function; undefined
\* when the argument is left out
MappedError == ErrorOf("MyCustomError")
ErrorCases == {Undefined, MappedError, Num(0), Str(""), Producer("number")}
TryInputs == [errorCase : ErrorCases]

TryInit ==
    /\ pc = "idle"
    /\ cfg = NoConfig
    /\ ret = Return(Undefined)
    /\ promises = <<>>
    /\ reacts = <<>>
    /\ jobs = <<>>
    /\ timers = <<>>
    /\ calls = <<>>
    /\ fnCalls = 0
    /\ inp \in TryInputs
    /\ op = ""
    /\ alt = NoOutcome
    /\ steps = 0

\* ResultTry is called: the body up to its first await
ResultTryCall ==
    /\ pc = "idle"
    /\ \E a \in ArgLists, f \in FnBehaviours :
          LET C == Config(<<>>, "fn", Undefined, a, f)
              R == ResultTry(C, EmptyHeap, inp.errorCase)
          IN  /\ SetHeap(R.H)
              /\ ret' = R.out
              /\ cfg' = C
    /\ op' = "ResultTry"
    /\ pc' = "called"
    /\ UNCHANGED <<inp, alt, steps>>

\* microtask: the awaited promise settled, the body of ResultTry goes on
AwaitReactionJob ==
    /\ jobs # <<>>
    /\ Head(jobs).type = "await"
    /\ LET j == Head(jobs)
           H0 == [Heap EXCEPT !.jobs = Tail(@)]
       IN  IF j.settled = "fulfilled"
           THEN SetHeap(CallResolve(H0, j.dst, j.gen, Ok(j.v)))
           ELSE SetHeap(ResultTryCatch(cfg, H0, j.dst, inp.errorCase, j.v))
    /\ UNCHANGED <<pc, cfg, ret>>
    /\ UNCHANGED dataVars

TryNext ==
    \/ ResultTryCall
    \/ AwaitReactionJob
    \/ ResolveThenableJob
    \/ SettleNative
    \/ TimerFire

TrySpec == TryInit /\ [][TryNext]_vars

(************************ stacked decorators *******************************)
\* @DefaultCatcher(hOuter) @Catcher(C, hInner) method() {..}: decorators apply
\* bottom-up, so Catcher wraps the method and DefaultCatcher wraps that wrapper
StackedLayers(m) ==
    {<<Catcher(c, hInner, m), DefaultCatcher(hOuter, m)>> :
        c \in FilterClasses, hInner \in Handlers, hOuter \in Handlers}

\* a call of a method decorated with both
InvokeStacked ==
    /\ pc = "idle"
    /\ \E m \in MethodNames, c \in Contexts, a \in ArgLists, f \in FnBehaviours :
          \E Ls \in StackedLayers(m) : InvokeWith(Config(Ls, m, c, a, f))

StackNext ==
    \/ InvokeStacked
    \/ CatchReactionJob
    \/ ResolveThenableJob
    \/ AdoptReactionJob
    \/ SettleNative
    \/ TimerFire

StackSpec == Init /\ [][StackNext]_vars

(***************************** observers ***********************************)
\* the single wrapper of an invocation of Spec
L1 == cfg.layers[1]
Invoked == pc = "called"
FunctionForm == L1.entry \in {"catcher", "defaultCatcher"}
DecoratorForm == L1.entry \in {"Catcher", "DefaultCatcher", "AnyErrorCatcher"}
FnThrew == cfg.fn.shape = "throw"
FnAsync == cfg.fn.shape \in {"native", "xrm", "thenable"}
FnRejects == FnAsync /\ cfg.fn.fate.k = "reject"
FnFulfils == FnAsync /\ cfg.fn.fate.k = "fulfil"
\* the error the wrapped function fails with
FnError == IF FnThrew THEN cfg.fn.v ELSE cfg.fn.fate.v
HandlerReturns == L1.handler.k \in {"return", "fulfil"}
\* the wrapper returned a native promise
ReturnedPromise == ret.k = "return" /\ ret.v.kind = "promise"
WrapperPromise == promises[ret.v.n]
\* nothing is left to run: no microtask, no timer, no promise the environment will settle
Quiescent ==
    /\ Invoked
    /\ jobs = <<>>
    /\ timers = <<>>
    /\ \A p \in 1..Len(promises) :
          promises[p].state = "pending" => promises[p].fate.k \notin {"fulfil", "reject"}
CallsOf(k) == {i \in 1..Len(calls) : calls[i].layer = k}

(***************************** claims **************************************)
\* C1: catcher(f, C, h): when f throws synchronously an instance of C, h is
\* invoked once with it and the wrapper returns what h returns; when f throws
\* a value that is neither an instance of C nor an {errorCode: number,
\* message: string} object, h is not invoked and the wrapper throws that value.
C1_SyncFilter ==
    (Invoked /\ L1.entry = "catcher" /\ FnThrew) =>
        /\ InstanceOf(FnError, L1.ErrorClass) =>
              /\ Len(calls) = 1
              /\ calls[1].argv[1] = FnError
              /\ L1.handler.k = "return" => ret = Return(L1.handler.v)
              /\ L1.handler.k \in {"fulfil", "reject"} =>
                    /\ ReturnedPromise
                    /\ WrapperPromise.fate = Fate(L1.handler.k, L1.handler.v)
        /\ (~InstanceOf(FnError, L1.ErrorClass) /\ ~BAKUtilsIsXrmError(FnError)) =>
              /\ calls = <<>>
              /\ ret = Throw(FnError)

C1_Witness ==
    /\ Invoked /\ L1.entry = "catcher" /\ FnThrew
    /\ L1.ErrorClass = "ExtendedError" /\ FnError = ErrorOf("Error")
    /\ calls = <<>> /\ ret = Throw(ErrorOf("Error"))

\* C2: with a filter class C (catcher / Catcher), a native promise, platform
\* thenable or generic thenable that rejects with an error failing the filter
\* test never reaches h, and the wrapper's promise rejects with that error.
C2_AsyncFilter ==
    (Invoked /\ L1.entry \in {"catcher", "Catcher"} /\ FnRejects
        /\ ~SyncMatches(L1.ErrorClass, FnError)) =>
        /\ calls = <<>>
        /\ ReturnedPromise
        /\ WrapperPromise.state # "fulfilled"
        /\ Quiescent => (WrapperPromise.state = "rejected" /\ WrapperPromise.value = FnError)

\* C3: defaultCatcher(f, h): whatever f throws synchronously, Error or not,
\* h is invoked with it and the wrapper returns what h returns.
C3_DefaultCatchesAnything ==
    (Invoked /\ L1.entry = "defaultCatcher" /\ FnThrew) =>
        /\ Len(calls) = 1
        /\ calls[1].argv[1] = FnError
        /\ L1.handler.k = "return" => ret = Return(L1.handler.v)

\* C4: in every invocation each wrapper's handler runs at most once, and not
\* at all when the wrapped function neither throws nor rejects.
C4_HandlerAtMostOnce ==
    Invoked =>
        /\ \A k \in 1..Len(cfg.layers) : Cardinality(CallsOf(k)) <= 1
        /\ ~(FnThrew \/ FnRejects) => calls = <<>>

C4_Witness ==
    /\ Quiescent /\ FnRejects /\ cfg.fn.shape = "native"
    /\ L1.handler.k = "reject" /\ Len(calls) = 1
    /\ ReturnedPromise /\ WrapperPromise.state = "rejected"

\* the wrapper's promise recovers: it never rejects, it fulfils with what the
\* handler returned after one handler call on the error, and it does so once
\* nothing is left to run
Recovered ==
    /\ ReturnedPromise
    /\ WrapperPromise.state # "rejected"
    /\ WrapperPromise.state = "fulfilled" =>
          /\ WrapperPromise.value = L1.handler.v
          /\ Len(calls) = 1
          /\ calls[1].argv[1] = FnError
    /\ Quiescent => WrapperPromise.state = "fulfilled"

\* the wrapper's promise passes the fulfilment on, and the handler is not called
PassedOn ==
    /\ ReturnedPromise
    /\ calls = <<>>
    /\ WrapperPromise.state # "rejected"
    /\ WrapperPromise.state = "fulfilled" => WrapperPromise.value = cfg.fn.fate.v
    /\ Quiescent => WrapperPromise.state = "fulfilled"

\* C5: the wrapped function returns a native promise: a rejection matching
\* the filter makes the wrapper's promise fulfil with the handler's result
\* (awaited when the handler is async); a fulfilment with v makes it fulfil
\* with v, the handler not invoked.
C5_NativePromise ==
    (Invoked /\ cfg.fn.shape = "native") =>
        /\ (FnRejects /\ SyncMatches(L1.ErrorClass, FnError) /\ HandlerReturns) => Recovered
        /\ FnFulfils => PassedOn

C5_Witness ==
    /\ Quiescent /\ cfg.fn.shape = "native" /\ FnRejects
    /\ L1.entry = "catcher" /\ L1.ErrorClass = "Error" /\ FnError = ErrorOf("ExtendedError")
    /\ L1.handler.k = "fulfil"
    /\ Len(calls) = 1
    /\ ReturnedPromise /\ WrapperPromise.state = "fulfilled" /\ WrapperPromise.value = Fallback

C7_PlatformThenable ==
    (Invoked /\ cfg.fn.shape = "xrm") =>
        /\ (FnRejects /\ FnError = CodeObj("number", "string") /\ HandlerReturns) => Recovered
        /\ FnFulfils => PassedOn

C7_Witness ==
    /\ Quiescent /\ cfg.fn.shape = "xrm" /\ FnRejects
    /\ L1.entry = "defaultCatcher" /\ FnError = CodeObj("number", "string")
    /\ L1.handler.k = "return"
    /\ Len(calls) = 1 /\ calls[1].argv[1] = CodeObj("number", "string")
    /\ ReturnedPromise /\ WrapperPromise.state = "fulfilled" /\ WrapperPromise.value = Fallback

\* C8: a wrapped function that returns, without throwing, a value that is
\* neither a native promise nor an object with a then method: the wrapper
\* returns that value synchronously, creates no promise, reaction, job or
\* timer, and never invokes the handler; wrapped with filter Error, a thrown
\* Error yields the handler's value instead.
C8_PlainValue ==
    /\ (Invoked /\ cfg.fn.shape = "plain") =>
          /\ ret = Return(cfg.fn.v)
          /\ promises = <<>> /\ reacts = <<>> /\ jobs = <<>> /\ timers = <<>>
          /\ calls = <<>>
    /\ (Invoked /\ FnThrew /\ FnError = ErrorOf("Error") /\ L1.ErrorClass = "Error"
            /\ L1.handler.k = "return") =>
          ret = Return(L1.handler.v)

C8_Witness ==
    /\ Invoked /\ cfg.fn.shape = "plain" /\ cfg.fn.v = Obj(7)
    /\ L1.entry = "catcher" /\ L1.ErrorClass = "Error"
    /\ ret = Return(Obj(7)) /\ promises = <<>> /\ calls = <<>>

\* C9: catcher / defaultCatcher call the handler as h(error, context,
\* ...originalArgs): the caught error, the wrapper's this, then exactly the
\* wrapper's arguments in order.
C9_FunctionHandlerArgs ==
    (Invoked /\ FunctionForm) =>
        \A i \in 1..Len(calls) : calls[i].argv = <<FnError, cfg.ctx>> \o cfg.args

\* C10: a method decorated with Catcher / DefaultCatcher / AnyErrorCatcher
\* calls the handler as h(error, methodName, context, ...args): the caught
\* error, the declared name of the method, the receiver of the call, then
\* exactly the call's arguments in order.
C10_DecoratorHandlerArgs ==
    (Invoked /\ DecoratorForm) =>
        \A i \in 1..Len(calls) :
            calls[i].argv = <<FnError, Str(cfg.name), cfg.ctx>> \o cfg.args

C10_Witness ==
    /\ Invoked /\ L1.entry = "DefaultCatcher" /\ FnThrew
    /\ cfg.ctx = Obj(2) /\ cfg.args = <<Num(1), Num(2)>>
    /\ Len(calls) = 1
    /\ calls[1].argv = <<ErrorOf("Error"), Str("boomInst"), Obj(2), Num(1), Num(2)>>

\* C11: a failing handler is not recovered from: when the handler throws while
\* handling a synchronous exception the wrapper throws the handler's
\* exception; when it throws or returns a rejecting promise while handling an
\* asynchronous rejection the wrapper's promise rejects with the handler's
\* error; the handler is not invoked a second time and the wrapped function
\* is not invoked again.
C11_NoMetaRecovery ==
    (Invoked /\ L1.handler.k \in {"throw", "reject"}) =>
        /\ Len(calls) <= 1
        /\ fnCalls = 1
        /\ (FnThrew /\ calls # <<>> /\ L1.handler.k = "throw") => ret = Throw(L1.handler.v)
        /\ FnRejects =>
              /\ ReturnedPromise
              /\ WrapperPromise.state # "fulfilled"
              /\ WrapperPromise.state = "rejected" =>
                    /\ WrapperPromise.value = L1.handler.v
                    /\ Len(calls) = 1
              /\ Quiescent => WrapperPromise.state = "rejected"

C11_Witness ==
    /\ Quiescent /\ FnRejects /\ cfg.fn.shape = "thenable"
    /\ L1.handler.k = "throw"
    /\ Len(calls) = 1 /\ fnCalls = 1
    /\ ReturnedPromise /\ WrapperPromise.state = "rejected"
    /\ WrapperPromise.value = HandlerError

(************************ Option / Result observers ************************)
\* the expression named name was evaluated
Did(name) == pc = "called" /\ op = name
\* what fn(v) does on its own
Applied(fn, v) == Call(EmptyHeap, fn, <<v>>).out
Invocation(fn, argv) == [fn |-> fn, argv |-> argv]
\* the value a default / error argument stands for, when it is not a producer that throws
Produced(d) == IF IsFunction(d) THEN Call(EmptyHeap, d, <<>>).out.v ELSE d
ProducerThrows(d) == IsFunction(d) /\ Call(EmptyHeap, d, <<>>).out.k = "throw"
\* the calls a use of the default / error argument d makes
ProducerCalls(d) == IF IsFunction(d) THEN <<Invocation(d, <<>>)>> ELSE <<>>
\* o is a Some holding v: isSome() is true and unwrap() === v
IsSomeOf(o, v) == isOption(o) /\ isSome(o) /\ unwrap(o) = Return(v)

\* C12: Option(x) returns the identical None singleton when x is null or
\* undefined; for every x that is neither null nor undefined it returns a Some
\* whose isSome() is true and whose unwrap() === x.
C12_OptionClassifies ==
    Did("Option(x)") =>
        /\ Nullish(inp.x) => ret = Return(None)
        /\ ~Nullish(inp.x) => (ret.k = "return" /\ IsSomeOf(ret.v, inp.x))

\* C12 (amended): as C12, the second part for every x that is neither null
\* nor undefined nor a function.
C12_OptionClassifiesValues ==
    Did("Option(x)") =>
        /\ Nullish(inp.x) => ret = Return(None)
        /\ (~Nullish(inp.x) /\ ~IsFunction(inp.x)) =>
              /\ ret.k = "return" /\ IsSomeOf(ret.v, inp.x)
              /\ calls = <<>>

C12_Witness ==
    /\ Did("Option(x)") /\ inp.x = Num(2)
    /\ ret = Return(SomeObject(Num(2)))

\* C13: Some(v).map(f) equals Option(f(v)): a Some holding f(v) when f(v) is
\* neither null nor undefined, None (no exception) when f returns null or
\* undefined; None.map(f) is None and f is not invoked.
C13_MapReclassifies ==
    /\ Did("Some(x).map(f)") =>
          LET r == Applied(inp.f, inp.x)
          IN  r.k = "return" =>
                  /\ ~Nullish(r.v) => (ret.k = "return" /\ IsSomeOf(ret.v, r.v))
                  /\ Nullish(r.v) => ret = Return(None)
    /\ Did("None.map(f)") => (ret = Return(None) /\ calls = <<>>)

\* C14: for all f and g, Some(v).map(f).map(g) has the same outcome (same
\* variant, same contained value) as Some(v).map(x => g(f(x))).
C14_FunctorComposition ==
    Did("Some(x).map(f).map(g)") => ret = alt.out

\* C14 (amended): for all f and g where f(v) is neither null nor undefined,
\* the two expressions have the same outcome (same variant and contained
\* value, or the same exception) after the same callback invocations.
C14_FunctorCompositionNonNull ==
    (Did("Some(x).map(f).map(g)")
        /\ ~(Applied(inp.f, inp.x).k = "return" /\ Nullish(Applied(inp.f, inp.x).v))) =>
        /\ ret = alt.out
        /\ calls = alt.calls

C14_Witness ==
    /\ Did("Some(x).map(f).map(g)") /\ inp.x = Num(1)
    /\ inp.f.onNum = "succ" /\ inp.g.onNum = "succ"
    /\ ret = Return(SomeObject(Num(3))) /\ alt.out = Return(SomeObject(Num(3)))
    /\ calls = <<Invocation(inp.f, <<Num(1)>>), Invocation(inp.g, <<Num(2)>>)>>

\* C15: Some(v).flatMap(f) returns exactly what f(v) returns, not wrapped
\* again; None.flatMap(f) is None and f is not invoked; flatMapAsync does the
\* same through a promise, and on None its promise resolves to None.
C15_FlatMapNoDoubleWrap ==
    /\ Did("Some(x).flatMap(f)") =>
          /\ ret = Applied(inp.f, inp.x)
          /\ calls = <<Invocation(inp.f, <<inp.x>>)>>
    /\ Did("None.flatMap(f)") => (ret = Return(None) /\ calls = <<>>)
    /\ Did("Some(x).flatMapAsync(f)") =>
          LET r == Applied(inp.f, inp.x)
          IN  /\ ReturnedPromise
              /\ calls = <<Invocation(inp.f, <<inp.x>>)>>
              /\ r.k = "throw" =>
                    (WrapperPromise.state = "rejected" /\ WrapperPromise.value = r.v)
              /\ (r.k = "return" /\ ~HasThen(r.v)) =>
                    (WrapperPromise.state = "fulfilled" /\ WrapperPromise.value = r.v)
              /\ (r.k = "return" /\ HasThen(r.v)) =>
                    /\ WrapperPromise.state # "rejected"
                    /\ WrapperPromise.state = "fulfilled" =>
                          WrapperPromise.value = SomeObject(inp.x)
                    /\ Quiescent => WrapperPromise.state = "fulfilled"
    /\ Did("None.flatMapAsync(f)") =>
          /\ ReturnedPromise
          /\ WrapperPromise.state = "fulfilled" /\ WrapperPromise.value = None
          /\ calls = <<>>

C15_Witness ==
    /\ Did("Some(x).flatMapAsync(f)") /\ inp.x = Num(2) /\ inp.f.onNum = "promise"
    /\ Quiescent /\ ReturnedPromise
    /\ WrapperPromise.state = "fulfilled" /\ WrapperPromise.value = SomeObject(Num(2))

\* the Option a default argument d stands for
DefaultOption(d) == IF Nullish(Produced(d)) THEN None ELSE SomeObject(Produced(d))

\* C16: Some(v).mapOr(f, d) returns Some(f(v)) when f(v) is neither null nor
\* undefined and Option(d) when f(v) is null or undefined; None.mapOr(f, d)
\* returns Option(d) without invoking f; d is a value or a zero-argument
\* producer whose return value is the default.
C16_MapOr ==
    /\ Did("Some(x).mapOr(f, d)") =>
          LET r == Applied(inp.f, inp.x)
          IN  /\ (r.k = "return" /\ ~Nullish(r.v)) =>
                    (ret.k = "return" /\ IsSomeOf(ret.v, r.v))
              /\ (r.k = "return" /\ Nullish(r.v) /\ ~ProducerThrows(inp.d)) =>
                    ret = Return(DefaultOption(inp.d))
    /\ (Did("None.mapOr(f, d)") /\ ~ProducerThrows(inp.d)) =>
          /\ ret = Return(DefaultOption(inp.d))
          /\ calls = ProducerCalls(inp.d)

\* C16 (amended): as C16, the first case when f(v) is neither null nor
\* undefined nor a function.
C16_MapOrValues ==
    /\ Did("Some(x).mapOr(f, d)") =>
          LET r == Applied(inp.f, inp.x)
          IN  /\ (r.k = "return" /\ ~Nullish(r.v) /\ ~IsFunction(r.v)) =>
                    /\ ret.k = "return" /\ IsSomeOf(ret.v, r.v)
                    /\ calls = <<Invocation(inp.f, <<inp.x>>)>>
              /\ (r.k = "return" /\ Nullish(r.v) /\ ~ProducerThrows(inp.d)) =>
                    /\ ret = Return(DefaultOption(inp.d))
                    /\ calls = <<Invocation(inp.f, <<inp.x>>)>> \o ProducerCalls(inp.d)
    /\ (Did("None.mapOr(f, d)") /\ ~ProducerThrows(inp.d)) =>
          /\ ret = Return(DefaultOption(inp.d))
          /\ calls = ProducerCalls(inp.d)

C16_Witness ==
    /\ Did("Some(x).mapOr(f, d)") /\ inp.x = Num(1) /\ inp.f.onNum = "undefined"
    /\ inp.d = Producer("number")
    /\ ret = Return(SomeObject(Num(1)))
    /\ calls = <<Invocation(inp.f, <<Num(1)>>), Invocation(Producer("number"), <<>>)>>

\* C17: None.okOr(e) is an Err whose payload is e (or what e returns when e
\* is a producer); Some(v).okOr(e) is an Ok whose unwrap() === v, and e is
\* neither used nor invoked.
C17_OkOr ==
    /\ (Did("None.okOr(d)") /\ ~ProducerThrows(inp.d)) =>
          /\ ret.k = "return" /\ isResult(ret.v) /\ isErr(ret.v)
          /\ ret.v.error = Produced(inp.d)
    /\ Did("Some(x).okOr(d)") =>
          /\ ret.k = "return" /\ isResult(ret.v) /\ isOk(ret.v)
          /\ unwrap(ret.v) = Return(inp.x)
          /\ calls = <<>>

C17_Witness ==
    /\ Did("None.okOr(d)") /\ inp.d = Producer("number")
    /\ ret = Return(Err(Num(1)))
    /\ calls = <<Invocation(Producer("number"), <<>>)>>

\* C18: for every value v an Ok can hold, Ok(v).toOption() is a Some whose
\* unwrap() === v; Err(e).toOption() is the identical None.
C18_ToOption ==
    /\ Did("Ok(x).toOption()") => (ret.k = "return" /\ IsSomeOf(ret.v, inp.x))
    /\ Did("Err(x).toOption()") => ret = Return(None)

\* C18 (amended): for every v that is neither null nor undefined nor a
\* function, Ok(v).toOption() is a Some whose unwrap() === v; for v null or
\* undefined it is the None singleton; Err(e).toOption() is the identical None.
C18_ToOptionValues ==
    /\ Did("Ok(x).toOption()") =>
          /\ (~Nullish(inp.x) /\ ~IsFunction(inp.x)) =>
                (ret.k = "return" /\ IsSomeOf(ret.v, inp.x))
          /\ Nullish(inp.x) => ret = Return(None)
    /\ Did("Err(x).toOption()") => ret = Return(None)

C18_Witness ==
    /\ Did("Ok(x).toOption()") /\ inp.x = Num(2)
    /\ ret = Return(SomeObject(Num(2))) /\ calls = <<>>

\* C19: Err(e).map(f) returns an Err carrying the same e (isErr() true), and
\* f is not invoked.
C19_ErrMap ==
    Did("Err(x).map(f)") =>
        /\ ret.k = "return" /\ isResult(ret.v) /\ isErr(ret.v)
        /\ ret.v.error = inp.x
        /\ calls = <<>>

\* C20: Ok(v).map(f) never throws: it returns Ok(f(v)) when f returns, and an
\* Err whose payload is x when f throws x.
C20_OkMapNeverThrows ==
    Did("Ok(x).map(f)") =>
        LET r == Applied(inp.f, inp.x)
        IN  /\ ret.k = "return"
            /\ r.k = "return" => ret.v = Ok(r.v)
            /\ r.k = "throw" => ret.v = Err(r.v)
            /\ calls = <<Invocation(inp.f, <<inp.x>>)>>

C20_Witness ==
    /\ Did("Ok(x).map(f)") /\ inp.x = Null /\ inp.f.onOther = "throw"
    /\ ret = Return(Err(CallbackError))

\* the first service of the chain that returned an Err, 0 when none did
FirstErr == IF inp.steps[1] = "error" THEN 1
            ELSE IF inp.steps[2] = "error" THEN 2
            ELSE IF inp.steps[3] = "error" THEN 3 ELSE 0
\* the returned promise has fulfilled with v
FulfilledWith(v) ==
    /\ ReturnedPromise
    /\ WrapperPromise.state = "fulfilled" /\ WrapperPromise.value = v
\* the microtasks have run and the returned promise is none of the environment's
Drained == jobs = <<>> /\ ReturnedPromise /\ WrapperPromise.fate.k = "derived"

\* C21: Ok(v).flatMap(f) returns exactly f(v); Err(e).flatMap(f) returns an Err
\* carrying e without invoking f (flatMapAsync alike, through its promise). The
\* chain r1.flatMap(_ => r2.flatMap(_ => r3.map(g))) yields the error of the
\* first Err among r1, r2, r3 and runs none of the later steps; it yields
\* Ok(g(..)) when every step is Ok.
C21_FlatMapShortCircuit ==
    /\ Did("r1.flatMap(g)") =>
          /\ inp.steps[1] = "ok" => ret = Applied(inp.g, Num(1))
          /\ inp.steps[1] = "error" => (ret = Return(Step(1)) /\ calls = <<>>)
    /\ (Did("r1.flatMapAsync(g)") /\ Drained /\ inp.steps[1] = "error") =>
          (FulfilledWith(Step(1)) /\ calls = <<>>)
    /\ Did("processOrder") =>
          /\ FirstErr > 0 => (ret = Return(Step(FirstErr)) /\ Len(calls) = FirstErr - 1)
          /\ (FirstErr = 0 /\ Applied(inp.g, Num(3)).k = "return") =>
                ret = Return(Ok(Applied(inp.g, Num(3)).v))
    /\ (Did("processOrderAsync") /\ Drained) =>
          /\ FirstErr > 0 => (FulfilledWith(Step(FirstErr)) /\ Len(calls) = FirstErr - 1)
          /\ (FirstErr = 0 /\ Applied(inp.g, Num(3)).k = "return") =>
                FulfilledWith(Ok(Applied(inp.g, Num(3)).v))

\* C22: Some(inner).flatten() returns inner itself when inner is a Some; it
\* fails with an error when the contained value is not an Option or is None;
\* None.flatten() returns None.
C22_Flatten ==
    /\ Did("Some(Some(x)).flatten()") => ret = Return(SomeX)
    /\ Did("Some(x).flatten()") => ret = Throw(FlattenError)
    /\ Did("Some(None).flatten()") => ret = Throw(FlattenError)
    /\ Did("None.flatten()") => ret = Return(None)

C22_Witness ==
    /\ Did("Some(Some(x)).flatten()") /\ inp.x = Num(1)
    /\ ret = Return(SomeObject(Num(1)))

\* C23: Some(v).clone() returns a new Some whose value is a deep structural
\* copy of v; None.clone() returns the identical None.
C23_Clone ==
    /\ (Did("Some(x).clone()") /\ ~IsFunction(inp.x)) =>
          (ret.k = "return" /\ IsSomeOf(ret.v, inp.x))
    /\ Did("None.clone()") => ret = Return(None)

\* C24: isSome() with no argument is true exactly for Some and isNone() is its
\* complement; isSome(expected) is true only when the Option is Some and its
\* value is strictly equal to expected; on None isSome is false whatever the
\* argument.
C24_IsSomeExpected ==
    /\ Did("Some(x).isSome()") => ret = Return(Bool(TRUE))
    /\ Did("None.isSome()") => ret = Return(Bool(FALSE))
    /\ Did("Some(x).isNone()") => ret = Return(Bool(FALSE))
    /\ Did("None.isNone()") => ret = Return(Bool(TRUE))
    /\ Did("Some(x).isSome(w)") => ret = Return(Bool(inp.x = inp.w))
    /\ Did("None.isSome(w)") => ret = Return(Bool(FALSE))

\* C25: Option(producer) invokes the producer once; when it throws, nothing
\* propagates and the result is None; when it returns null or undefined the
\* result is None; otherwise the result is a Some of the returned value.
C25_OptionProducer ==
    (Did("Option(x)") /\ IsFunction(inp.x)) =>
        /\ calls = <<Invocation(inp.x, <<>>)>>
        /\ ret.k = "return"
        /\ ProducerThrows(inp.x) => ret.v = None
        /\ (~ProducerThrows(inp.x) /\ Nullish(Produced(inp.x))) => ret.v = None
        /\ (~ProducerThrows(inp.x) /\ ~Nullish(Produced(inp.x))) =>
              IsSomeOf(ret.v, Produced(inp.x))

C25_Witness ==
    /\ Did("Option(x)") /\ inp.x = Producer("throw")
    /\ ret = Return(None) /\ Len(calls) = 1

\* the Err payload the error case of the call makes of the original error e
ErrorPayload(e) ==
    IF IsFunction(inp.errorCase) THEN Applied(inp.errorCase, e).v
    ELSE IF inp.errorCase # Undefined THEN inp.errorCase ELSE e

\* C26: ResultTry(fn, args, errorCase) returns a promise that fulfils with
\* Ok(v) when fn returns v or a promise / thenable that fulfils with v, and
\* with an Err when fn throws or its promise / thenable rejects; the Err
\* payload is errorCase(originalError, ...args) when errorCase is a function,
\* errorCase itself when it is a fixed non-function value, and the original
\* error when errorCase is not supplied.
C26_ResultTry ==
    (Did("ResultTry") /\ Quiescent) =>
        /\ cfg.fn.shape = "plain" => FulfilledWith(Ok(cfg.fn.v))
        /\ FnFulfils => FulfilledWith(Ok(cfg.fn.fate.v))
        /\ cfg.fn.shape = "throw" => FulfilledWith(Err(ErrorPayload(cfg.fn.v)))
        /\ FnRejects => FulfilledWith(Err(ErrorPayload(cfg.fn.fate.v)))
        /\ ((cfg.fn.shape = "throw" \/ FnRejects) /\ IsFunction(inp.errorCase)) =>
              calls = <<Invocation(inp.errorCase, <<FnError>> \o cfg.args)>>

\* the method failed with an instance of Error: it threw it, or its promise /
\* thenable rejected with it
FailedWithError ==
    /\ FnThrew \/ FnRejects
    /\ InstanceOf(FnError, "Error")
\* both handlers of the stack return a value
StackHandlersReturn ==
    \A k \in 1..2 : cfg.layers[k].handler.k = "return"
\* the handler of layer k, and no other, ran once, with the failure
OnlyHandler(k) ==
    /\ Len(calls) = 1
    /\ calls[1].layer = k
    /\ calls[1].argv[1] = FnError

\* C27: with @DefaultCatcher(hOuter) stacked over @Catcher(C, hInner), for
\* synchronous and asynchronous methods alike: a failure that is an instance
\* of C is handled by hInner and hOuter is not invoked; a failure that is not
\* an instance of C is passed on to the outer wrapper and handled by hOuter;
\* exactly one handler runs, exactly once.
C27_StackedDecorators ==
    (Quiescent /\ Len(cfg.layers) = 2 /\ FailedWithError /\ StackHandlersReturn) =>
        /\ InstanceOf(FnError, cfg.layers[1].ErrorClass) => OnlyHandler(1)
        /\ ~InstanceOf(FnError, cfg.layers[1].ErrorClass) => OnlyHandler(2)

\* the thrown value carries a numeric errorCode and a string message, and is
\* no instance of the filter class of the wrapper
ThrewForeignCodeObject ==
    /\ Invoked /\ FnThrew
    /\ FnError.code = "number" /\ FnError.msg = "string"
    /\ L1.ErrorClass # "undefined" /\ ~InstanceOf(FnError, L1.ErrorClass)

\* C28: when the wrapped function synchronously throws a value with a numeric
\* errorCode and a string message, the handler is invoked with it and the
\* wrapper returns the handler's result, even though the value is no instance
\* of the filter class.
C28_XrmErrorBypassesFilter ==
    ThrewForeignCodeObject =>
        /\ Len(calls) = 1
        /\ calls[1].argv[1] = FnError
        /\ L1.handler.k = "return" => ret = Return(L1.handler.v)
        /\ L1.handler.k = "throw" => ret = Throw(L1.handler.v)
        /\ L1.handler.k \in {"fulfil", "reject"} =>
              /\ ReturnedPromise
              /\ WrapperPromise.fate = Fate(L1.handler.k, L1.handler.v)

C28_Witness ==
    /\ ThrewForeignCodeObject
    /\ L1.ErrorClass = "ExtendedError" /\ FnError = CodeObj("number", "string")
    /\ L1.handler = Fate("return", Fallback)
    /\ Len(calls) = 1 /\ ret = Return(Fallback)

\* the wrapped function returned a promise / thenable; its computation ends
\* (fulfils or rejects) or never does
FnSettles == Invoked /\ FnAsync /\ cfg.fn.fate.k \in {"fulfil", "reject"}
FnNeverSettles == Invoked /\ FnAsync /\ cfg.fn.fate.k = "never"
WrapperSettled == ReturnedPromise /\ WrapperPromise.state # "pending"
\* a step leaves a settled wrapper promise as it is
SettledStays ==
    WrapperSettled =>
        /\ promises'[ret.v.n].state = WrapperPromise.state
        /\ promises'[ret.v.n].value = WrapperPromise.value

RECURSIVE WellFormed(_)
WellFormed(o) ==
    isOption(o) =>
        /\ o.type \in {"some", "none"}
        /\ isSome(o) # isNone(o)
        /\ o.type = "some" => (~Nullish(o.value) /\ WellFormed(o.value))
        /\ o.type = "none" => o = None

\* C30: over every sequence of constructor and combinator calls (Some,
\* Option, map, mapOr, okOr / toOption round trips, flatten): no Some ever
\* contains null or undefined, Some(null) and Some(undefined) fail with an
\* error, and every Option is exactly one of Some and None.
C30_SomeNeverNullish ==
    /\ ret.k = "return" => WellFormed(ret.v)
    /\ CurrentIsResult => WellFormed(unwrap(ret.v).v)
    /\ Did("Some") =>
          IF Nullish(inp.x) THEN ret = Throw(SomeError)
          ELSE ret = Return(SomeObject(inp.x))

C30_Witness ==
    /\ Did("flatten") /\ steps >= 3
    /\ ret = Return(SomeObject(Num(1)))

====
